---- MODULE Spec2Model ----
(***************************************************************************)
(* directory_to_markdown.py: one run of main() over a source tree.         *)
(*                                                                         *)
(* A name (one path segment, an extension, a fence tag, a file's text) is  *)
(* a sequence of one-character strings; a path is the sequence of its      *)
(* parts, as pathlib's Path.parts gives them.  The output document is the  *)
(* sequence of the strings handed to md_file.write, one chunk per call.    *)
(* A write to the output and the open of the output may raise OSError; a   *)
(* file may be deleted or replaced between glob's is_file() test and the   *)
(* read.  Both are choices of the environment.                             *)
(* read_text raising anything but UnicodeDecodeError (lines 68-70) is not  *)
(* part of the model: a file that exists, is regular, is within the size   *)
(* limit and decodes is read.                                              *)
(***************************************************************************)
EXTENDS Integers, Sequences, FiniteSets, TLC

VARIABLES cfg, srcKind, tree, prev, out, pc, idx, res, called, log, wfailed, exitCode

vars == <<cfg, srcKind, tree, prev, out, pc, idx, res, called, log, wfailed, exitCode>>

\* ------------------------------------------------------------------ bounds

\* Largest number of entries under the source directory.
MaxEntries == 2

\* ------------------------------------------------------------------ names

MB == 1048576

Dot == "."

n_root == <<"/">>
n_home == <<"h", "o", "m", "e">>
n_proj == <<"p", "r", "o", "j">>
n_node_modules == <<"n", "o", "d", "e", "_", "m", "o", "d", "u", "l", "e", "s">>
n_pycache == <<"_", "_", "p", "y", "c", "a", "c", "h", "e", "_", "_">>
n_git == <<".", "g", "i", "t">>
n_vscode == <<".", "v", "s", "c", "o", "d", "e">>
n_idea == <<".", "i", "d", "e", "a">>
n_sub == <<"s", "u", "b">>
n_a_py == <<"a", ".", "p", "y">>
n_b_bin == <<"b", ".", "b", "i", "n">>
n_c_py == <<"c", ".", "p", "y">>
n_d_tar_py == <<"d", ".", "t", "a", "r", ".", "p", "y">>
n_big_txt == <<"b", "i", "g", ".", "t", "x", "t">>
n_edge_md == <<"e", "d", "g", "e", ".", "m", "d">>
n_bad_txt == <<"b", "a", "d", ".", "t", "x", "t">>
n_dot_py == <<".", "p", "y">>

e_py == <<".", "p", "y">>
e_txt == <<".", "t", "x", "t">>
e_md == <<".", "m", "d">>
e_js == <<".", "j", "s">>
e_html == <<".", "h", "t", "m", "l">>
e_css == <<".", "c", "s", "s">>
e_json == <<".", "j", "s", "o", "n">>
e_yaml == <<".", "y", "a", "m", "l">>
e_yml == <<".", "y", "m", "l">>
e_bin == <<".", "b", "i", "n">>
e_tar_py == <<".", "t", "a", "r", ".", "p", "y">>

DEFAULT_IGNORE_DIRS == {n_node_modules, n_pycache, n_git, n_vscode, n_idea}

DefaultFileTypes == {e_py, e_txt, e_md, e_js, e_html, e_css, e_json, e_yaml, e_yml}

\* ------------------------------------------------------------ the file system

\* The entries a source directory may hold: rel is the path below the source
\* directory, kind what the entry is, size its st_size, utf8 whether its bytes
\* decode as UTF-8, text what read_text returns.
Pool ==
    { [rel |-> <<n_a_py>>, kind |-> "file", size |-> 10, utf8 |-> TRUE, text |-> <<"1">>],
      [rel |-> <<n_b_bin>>, kind |-> "file", size |-> 10, utf8 |-> TRUE, text |-> <<"2">>],
      [rel |-> <<n_node_modules, n_c_py>>, kind |-> "file", size |-> 10, utf8 |-> TRUE, text |-> <<"3">>],
      [rel |-> <<n_sub, n_d_tar_py>>, kind |-> "file", size |-> MB, utf8 |-> TRUE, text |-> <<"4">>],
      [rel |-> <<n_big_txt>>, kind |-> "file", size |-> 11 * MB, utf8 |-> TRUE, text |-> <<"5">>],
      [rel |-> <<n_edge_md>>, kind |-> "file", size |-> 10 * MB, utf8 |-> TRUE, text |-> <<"6">>],
      [rel |-> <<n_sub, n_bad_txt>>, kind |-> "file", size |-> 10, utf8 |-> FALSE, text |-> <<"7">>],
      [rel |-> <<n_dot_py>>, kind |-> "file", size |-> 0, utf8 |-> TRUE, text |-> <<>>],
      [rel |-> <<n_sub>>, kind |-> "dir", size |-> 0, utf8 |-> FALSE, text |-> <<>>] }

\* The trees: every sequence of at most MaxEntries distinct entries, in the
\* order the directory enumeration discovers them.
Trees ==
    UNION { { t \in [1..n -> Pool] : \A i, j \in 1..n : i /= j => t[i] /= t[j] }
            : n \in 0..MaxEntries }

\* What the output path holds before the run.
OldDocument == <<[t |-> "old", path |-> <<>>, text |-> <<>>]>>

NoFile == [exists |-> FALSE, content |-> <<>>]

\* --------------------------------------------------------------- pure helpers

\* str.rfind('.') on a name, 1-based; 0 when there is no dot.
RECURSIVE RFindDot(_, _)
RFindDot(name, i) ==
    IF i = 0 THEN 0
    ELSE IF name[i] = Dot THEN i
    ELSE RFindDot(name, i - 1)

\* PurePath.suffix: the part of the name from its last dot on, empty when the
\* name has no dot, starts with its only dot or ends with a dot.
Suffix(name) ==
    LET i == RFindDot(name, Len(name))
    IN IF 1 < i /\ i < Len(name) THEN SubSeq(name, i, Len(name)) ELSE <<>>

\* str.lstrip('.')
RECURSIVE LStripDot(_)
LStripDot(s) ==
    IF s /= <<>> /\ Head(s) = Dot THEN LStripDot(Tail(s)) ELSE s

\* file_path.relative_to(directory_path)
RelativeTo(path, base) == SubSeq(path, Len(base) + 1, Len(path))

\* directory_path / rel : the path glob yields for an entry
FilePath(dir, e) == dir \o e.rel

\* ------------------------------------------------------------ the program

\* The configurations main() builds from its arguments.
Configs ==
    [ directory_path : {<<n_root, n_home, n_proj>>, <<n_root, n_node_modules, n_proj>>},
      file_types : {DefaultFileTypes, {e_txt, e_bin, e_tar_py}},
      ignore_dirs : {DEFAULT_IGNORE_DIRS, {n_sub, n_big_txt}},
      recursive : BOOLEAN,
      max_file_size_mb : {1, 10} ]

\* is_ignored testing the directories of the path only, not its last part.
is_ignored_parents_only(path, ignore_dirs) ==
    \E k \in 1..(Len(path) - 1) : path[k] \in ignore_dirs

\* is_ignored: some part of the path is in ignore_dirs.
is_ignored(path, ignore_dirs) == \E k \in 1..Len(path) : path[k] \in ignore_dirs

\* The size test with >= for >.
TooLargeInclusive(file_size, max_size_mb) == file_size >= max_size_mb * 1024 * 1024

\* The size test of read_file_safely.
TooLarge(file_size, max_size_mb) == file_size > max_size_mb * 1024 * 1024

\* read_file_safely on a file in the state e: "ok" when it returns the text,
\* otherwise the failure it raises.
read_file_safely(e, max_size_mb) ==
    IF e.kind = "missing" THEN "NotFound"
    ELSE IF e.kind /= "file" THEN "NotAFile"
    ELSE IF TooLarge(e.size, max_size_mb) THEN "TooLarge"
    ELSE IF ~e.utf8 THEN "EncodingError"
    ELSE "ok"

\* The exception class read_file_safely raises for each failure.
Raised(failure) ==
    CASE failure = "NotFound" -> "FileNotFoundError"
      [] failure = "NotAFile" -> "ValueError"
      [] failure = "TooLarge" -> "OSError"
      [] failure = "EncodingError" -> "UnicodeDecodeError"

\* The except clauses of the per-file try: (OSError, UnicodeDecodeError) is
\* logged as a warning, any other Exception as an error.
HandlerLevel(class) ==
    IF class \in {"OSError", "FileNotFoundError", "UnicodeDecodeError"}
    THEN "warning" ELSE "error"

\* The validation without its is_dir() check.
ConfigValidExistsOnly(kind) == kind /= "missing"

\* The source path passes the two checks before the output is opened.
ConfigValid(kind) == kind = "dir"

\* The pattern with the recursive flag dropped.
PatternAlwaysRecursive(recursive) == "**/*"

\* The glob pattern and what directory_path.glob(pattern) yields: the indices
\* of the tree's entries, in discovery order.
Pattern(recursive) == IF recursive THEN "**/*" ELSE "*"

Glob(t, pattern) ==
    SelectSeq([i \in 1..Len(t) |-> i],
              LAMBDA i : pattern = "**/*" \/ Len(t[i].rel) = 1)

\* The extension test as name.endswith(t) for some accepted t.
TypeAcceptedEndswith(name, file_types) ==
    \E t \in file_types :
        Len(t) <= Len(name) /\ SubSeq(name, Len(name) - Len(t) + 1, Len(name)) = t

\* The extension test.
TypeAccepted(name, file_types) == Suffix(name) \in file_types

\* The open in append mode: the previous content stays.
OpenAppend(f) == [exists |-> TRUE, content |-> f.content]

\* output_file.open('w'): the file exists and is empty.
OpenW(f) == [exists |-> TRUE, content |-> <<>>]

\* md_file.write(s)
Write(f, chunk) == [f EXCEPT !.content = Append(@, chunk)]

Header(dir) == [t |-> "header", path |-> dir, text |-> <<>>]
Heading(rel) == [t |-> "heading", path |-> rel, text |-> <<>>]
Fence(tag) == [t |-> "fence", path |-> <<>>, text |-> tag]
Content(text) == [t |-> "content", path |-> <<>>, text |-> text]
Close == [t |-> "close", path |-> <<>>, text |-> <<>>]

Logged(level, line, i) == Append(log, [level |-> level, line |-> line, file |-> i])

\* The entry of the current iteration.
Cur == Glob(tree, Pattern(cfg.recursive))[idx]

Init ==
    /\ cfg \in Configs
    /\ srcKind \in {"dir", "file", "missing"}
    /\ tree \in (IF srcKind = "dir" THEN Trees ELSE {<<>>})
    /\ prev \in {NoFile, [exists |-> TRUE, content |-> OldDocument]}
    /\ out = prev
    /\ pc = "main"
    /\ idx = 0
    /\ res = [i \in 1..Len(tree) |-> "pending"]
    /\ called = {}
    /\ log = <<>>
    /\ wfailed = FALSE
    /\ exitCode = -1

\* main calls directory_to_markdown, which checks the source path.
Validate ==
    /\ pc = "main"
    /\ pc' = IF ConfigValid(srcKind) THEN "open" ELSE "raised"
    /\ UNCHANGED <<cfg, srcKind, tree, prev, out, idx, res, called, log, wfailed, exitCode>>

\* with output_file.open('w') ...: the open succeeds ...
OpenOutput ==
    /\ pc = "open"
    /\ out' = OpenW(out)
    /\ pc' = "header"
    /\ UNCHANGED <<cfg, srcKind, tree, prev, idx, res, called, log, wfailed, exitCode>>

\* ... or raises OSError, which leaves directory_to_markdown.
OpenOutputFails ==
    /\ pc = "open"
    /\ wfailed' = TRUE
    /\ pc' = "raised"
    /\ UNCHANGED <<cfg, srcKind, tree, prev, out, idx, res, called, log, exitCode>>

WriteHeader ==
    /\ pc = "header"
    /\ out' = Write(out, Header(cfg.directory_path))
    /\ pc' = "loop"
    /\ UNCHANGED <<cfg, srcKind, tree, prev, idx, res, called, log, wfailed, exitCode>>

\* The header's write raises: outside the per-file try, so it leaves the function.
WriteHeaderFails ==
    /\ pc = "header"
    /\ wfailed' = TRUE
    /\ pc' = "raised"
    /\ UNCHANGED <<cfg, srcKind, tree, prev, out, idx, res, called, log, exitCode>>

\* The next path of the glob and the three tests before the try.
Filter ==
    /\ pc = "loop"
    /\ idx < Len(Glob(tree, Pattern(cfg.recursive)))
    /\ idx' = idx + 1
    /\ LET i == Glob(tree, Pattern(cfg.recursive))[idx + 1]
           e == tree[i]
           file_path == FilePath(cfg.directory_path, e)
           verdict == IF e.kind /= "file" THEN "notfile"
                      ELSE IF is_ignored(file_path, cfg.ignore_dirs) THEN "ignored"
                      ELSE IF ~TypeAccepted(file_path[Len(file_path)], cfg.file_types)
                           THEN "skiptype"
                      ELSE "candidate"
       IN /\ res' = [res EXCEPT ![i] = verdict]
          /\ pc' = IF verdict = "candidate" THEN "read" ELSE "loop"
    /\ UNCHANGED <<cfg, srcKind, tree, prev, out, called, log, wfailed, exitCode>>

\* Between is_file() and the read the file is deleted, or replaced by a directory.
EnvChange ==
    /\ pc = "read"
    /\ tree[Cur].kind = "file"
    /\ \E k \in {"missing", "dir"} : tree' = [tree EXCEPT ![Cur].kind = k]
    /\ UNCHANGED <<cfg, srcKind, prev, out, pc, idx, res, called, log, wfailed, exitCode>>

\* content = read_file_safely(...), and the except clauses when it raises.
Read ==
    /\ pc = "read"
    /\ LET r == read_file_safely(tree[Cur], cfg.max_file_size_mb)
       IN /\ res' = [res EXCEPT ![Cur] = r]
          /\ called' = called \cup {Cur}
          /\ IF r = "ok"
             THEN /\ pc' = "w_heading"
                  /\ log' = log
             ELSE /\ pc' = "loop"
                  /\ log' = LET inner == IF r = "EncodingError"
                                         THEN Logged("warning", 66, Cur) ELSE log
                                line == IF HandlerLevel(Raised(r)) = "warning" THEN 142 ELSE 144
                            IN Append(inner, [level |-> HandlerLevel(Raised(r)),
                                              line |-> line, file |-> Cur])
    /\ UNCHANGED <<cfg, srcKind, tree, prev, out, idx, wfailed, exitCode>>

\* One md_file.write of the section: it appends its chunk and goes on to next.
SectionWrite(at, chunk, next) ==
    /\ pc = at
    /\ out' = Write(out, chunk)
    /\ pc' = next
    /\ log' = IF next = "loop" THEN Logged("info", 139, Cur) ELSE log
    /\ UNCHANGED <<cfg, srcKind, tree, prev, idx, res, called, wfailed, exitCode>>

WriteHeading ==
    SectionWrite("w_heading",
                 Heading(RelativeTo(FilePath(cfg.directory_path, tree[Cur]), cfg.directory_path)),
                 "w_fence")

WriteFence ==
    SectionWrite("w_fence", Fence(LStripDot(Suffix(tree[Cur].rel[Len(tree[Cur].rel)]))), "w_content")

WriteContent == SectionWrite("w_content", Content(tree[Cur].text), "w_close")

WriteClose == SectionWrite("w_close", Close, "loop")

\* A write of the section raises OSError: the per-file except clause logs a
\* warning and the loop goes on.
SectionWriteFails ==
    /\ pc \in {"w_heading", "w_fence", "w_content", "w_close"}
    /\ wfailed' = TRUE
    /\ log' = Logged(HandlerLevel("OSError"), 142, Cur)
    /\ pc' = "loop"
    /\ UNCHANGED <<cfg, srcKind, tree, prev, out, idx, res, called, exitCode>>

\* The glob is exhausted: the with block closes the file, the function returns
\* and main ends.
Finish ==
    /\ pc = "loop"
    /\ idx = Len(Glob(tree, Pattern(cfg.recursive)))
    /\ log' = Logged("info", 146, 0)
    /\ exitCode' = 0
    /\ pc' = "exited"
    /\ UNCHANGED <<cfg, srcKind, tree, prev, out, idx, res, called, wfailed>>

\* main's except Exception: logging.error and exit(1).
MainExcept ==
    /\ pc = "raised"
    /\ log' = Logged("error", 208, 0)
    /\ exitCode' = 1
    /\ pc' = "exited"
    /\ UNCHANGED <<cfg, srcKind, tree, prev, out, idx, res, called, wfailed>>

Next ==
    \/ Validate
    \/ OpenOutput
    \/ OpenOutputFails
    \/ WriteHeader
    \/ WriteHeaderFails
    \/ Filter
    \/ EnvChange
    \/ Read
    \/ WriteHeading
    \/ WriteFence
    \/ WriteContent
    \/ WriteClose
    \/ SectionWriteFails
    \/ Finish
    \/ MainExcept

Spec == Init /\ [][Next]_vars

\* ------------------------------------------------- vocabulary of the claims

Doc == out.content

Entries == 1..Len(tree)

FourKinds == {"NotFound", "NotAFile", "TooLarge", "EncodingError"}

Finished == pc = "exited"

Succeeded == pc = "exited" /\ exitCode = 0

\* directory_to_markdown has returned: its last statement has logged.
Returned == \E k \in DOMAIN log : log[k].line = 146

\* Some segment of the path is a name of the ignored-directory set.
HasIgnoredSegment(path) == \E k \in DOMAIN path : \E n \in cfg.ignore_dirs : path[k] = n

\* The extension of a file name: from its last dot on, when that dot is
\* neither the first nor the last character.
ExtensionOf(name) ==
    LET dots == {k \in 2..(Len(name) - 1) : name[k] = "."}
    IN IF dots = {} THEN <<>>
       ELSE LET last == CHOOSE k \in dots : \A m \in dots : m <= k
            IN [j \in 1..(Len(name) - last + 1) |-> name[last + j - 1]]

FileName(e) == e.rel[Len(e.rel)]

\* The document holds a section heading for the entry.
HasHeading(e) == \E k \in DOMAIN Doc : Doc[k].t = "heading" /\ Doc[k].path = e.rel

\* A complete section of the entry starts at chunk k: heading, opening fence,
\* the entry's text, closing fence.
SectionAt(k, e) ==
    /\ k + 3 <= Len(Doc)
    /\ Doc[k].t = "heading" /\ Doc[k].path = e.rel
    /\ Doc[k + 1].t = "fence"
    /\ Doc[k + 2].t = "content" /\ Doc[k + 2].text = e.text
    /\ Doc[k + 3].t = "close"

Sections(e) == {k \in DOMAIN Doc : SectionAt(k, e)}

LoggedAt(level, i) == \E k \in DOMAIN log : log[k].level = level /\ log[k].file = i

\* The entry is enumerated: any descendant when recursive, a direct child otherwise.
Enumerated(e) == cfg.recursive \/ Len(e.rel) = 1

\* The safe read of the entry succeeds: a regular file within the size limit
\* whose bytes decode.
Readable(e) ==
    /\ e.kind = "file"
    /\ e.size <= cfg.max_file_size_mb * MB
    /\ e.utf8

\* C1: after a run that ends without a fatal error, every enumerated regular
\* file whose path below the source directory has no ignored segment, whose
\* extension is accepted and whose safe read succeeds has exactly one section,
\* whatever the source directory and its ancestors are called.
C1_EveryEligibleFileHasOneSection ==
    Succeeded =>
        \A i \in Entries :
            ( /\ Enumerated(tree[i])
              /\ ~HasIgnoredSegment(tree[i].rel)
              /\ ExtensionOf(FileName(tree[i])) \in cfg.file_types
              /\ Readable(tree[i]) )
            => Cardinality(Sections(tree[i])) = 1

\* C2: a file whose path has a segment in the ignored-directory set never gets
\* a section and is never handed to the safe read.
C2_IgnoredNeverRenderedNorRead ==
    \A i \in Entries :
        HasIgnoredSegment(cfg.directory_path \o tree[i].rel)
        => ~HasHeading(tree[i]) /\ i \notin called

C2_Witness ==
    /\ Succeeded
    /\ \E i, j \in Entries :
        /\ HasIgnoredSegment(tree[i].rel)
        /\ tree[i].kind = "file"
        /\ ExtensionOf(FileName(tree[i])) \in cfg.file_types
        /\ res[i] = "ignored"
        /\ Sections(tree[j]) /= {}

\* C3: a file whose extension is not in the accepted set never gets a section,
\* in whatever directory it is.
C3_UnacceptedExtensionNeverRendered ==
    \A i \in Entries :
        ExtensionOf(FileName(tree[i])) \notin cfg.file_types
        => ~HasHeading(tree[i])

C3_Witness ==
    /\ Succeeded
    /\ \E i, j \in Entries :
        /\ ExtensionOf(FileName(tree[i])) \notin cfg.file_types
        /\ Len(tree[i].rel) > 1
        /\ res[i] = "skiptype"
        /\ Sections(tree[j]) /= {}

\* C4: when the source path is missing or not a directory, the output path is
\* never touched (not created, an existing file keeps its content), and the
\* run ends with an error logged by main and exit code 1.
C4_ConfigErrorBeforeOutput ==
    srcKind /= "dir" =>
        /\ out = prev
        /\ Finished => exitCode = 1 /\ log = <<[level |-> "error", line |-> 208, file |-> 0]>>

C4_Witness == Finished /\ srcKind = "file" /\ prev.exists /\ exitCode = 1

\* C5: whenever the safe read fails with one of the four failure kinds, the
\* caller logs a warning and no error for that file, the file gets no section,
\* and the run ends with exit code 0.
C5_ReadFailureIsWarning ==
    \A i \in Entries :
        res[i] \in FourKinds =>
            /\ LoggedAt("warning", i)
            /\ ~LoggedAt("error", i)
            /\ ~HasHeading(tree[i])
            /\ Finished => exitCode = 0

\* C6: once the open of the output or any write to it has failed, the run is
\* aborted: no further step of the traversal happens, and the run ends with an
\* error logged by main and exit code 1.
C6_OutputFailureIsFatal ==
    wfailed =>
        /\ pc \in {"raised", "exited"}
        /\ Finished => exitCode = 1 /\ LoggedAt("error", 0)

\* C7: a file that reaches the size test is rejected for size exactly when its
\* size is greater than max-size x 1024 x 1024; a rejected file gets no
\* section, a warning is logged and the run exits 0; a file of exactly the
\* limit is not rejected for size.
C7_SizeLimitIsStrict ==
    \A i \in called :
        tree[i].kind = "file" =>
            /\ res[i] = "TooLarge" <=> tree[i].size > cfg.max_file_size_mb * MB
            /\ res[i] = "TooLarge" =>
                /\ ~HasHeading(tree[i])
                /\ LoggedAt("warning", i)
                /\ Finished => exitCode = 0

C7_Witness ==
    /\ Succeeded
    /\ \E i, j \in Entries :
        /\ res[i] = "TooLarge"
        /\ tree[i].size = 11 * MB /\ cfg.max_file_size_mb = 10
        /\ tree[j].size = cfg.max_file_size_mb * MB
        /\ Sections(tree[j]) /= {}

\* C8: in non-recursive mode a file in a subdirectory is never a candidate, is
\* never read and never gets a section; a completed run has visited every
\* direct child, and in recursive mode every descendant.
C8_NonRecursiveDirectChildrenOnly ==
    /\ ~cfg.recursive =>
        \A i \in Entries :
            Len(tree[i].rel) > 1 => res[i] = "pending" /\ i \notin called /\ ~HasHeading(tree[i])
    /\ Succeeded =>
        \A i \in Entries :
            (cfg.recursive \/ Len(tree[i].rel) = 1) => res[i] /= "pending"

C8_Witness ==
    /\ Succeeded
    /\ ~cfg.recursive
    /\ \E i, j \in Entries :
        /\ Len(tree[i].rel) > 1
        /\ ~HasIgnoredSegment(cfg.directory_path \o tree[i].rel)
        /\ ExtensionOf(FileName(tree[i])) \in cfg.file_types
        /\ Readable(tree[i])
        /\ Len(tree[j].rel) = 1
        /\ Sections(tree[j]) /= {}

\* C9: after a run that passes validation and returns, the output file
\* exists, holds nothing of its previous content, and starts with the one
\* top-level heading naming the source directory; when no file was accepted
\* the document is that heading alone, and the exit code is 0.
C9_HeaderOnceAndFirst ==
    Returned =>
        /\ exitCode = 0
        /\ out.exists
        /\ Len(Doc) >= 1
        /\ Doc[1] = [t |-> "header", path |-> cfg.directory_path, text |-> <<>>]
        /\ \A k \in 2..Len(Doc) : Doc[k].t \notin {"header", "old"}
        /\ (\A i \in Entries : res[i] /= "ok") => Len(Doc) = 1

C9_Witness == Returned /\ prev.exists /\ tree = <<>> /\ Len(Doc) = 1

\* C10: between two file iterations and at the end of the run the document is
\* the header followed by complete sections only, one per file whose
\* processing succeeded, in discovery order.
C10_DocumentIsCompleteSections ==
    (pc = "loop" \/ Succeeded) =>
        /\ Len(Doc) >= 1
        /\ Doc[1].t = "header"
        /\ (Len(Doc) - 1) % 4 = 0
        /\ \A s \in 0..((Len(Doc) - 1) \div 4 - 1) :
            \E i \in Entries : SectionAt(2 + 4 * s, tree[i]) /\ res[i] = "ok"
        /\ \A k, m \in DOMAIN Doc :
            \A i, j \in Entries :
                (SectionAt(k, tree[i]) /\ SectionAt(m, tree[j]) /\ k < m) => i < j

====
